---- MODULE Spec2Model ----
(***************************************************************************)
(* State-machine model of src/lambda/index.py: the Lambda handler that     *)
(* routes a request to generate_presigned_url or confirm_upload, each of   *)
(* which checks its configuration, authenticates the bearer token against  *)
(* the secret held in Secrets Manager, parses the body and calls S3.       *)
(*                                                                         *)
(* Python strings are sequences of one-character strings; Python None is   *)
(* the sequence <<"None">>, which no string equals.  A dict is the set of   *)
(* its <<key, value>> items.  An event key that may be absent is a record  *)
(* [has, v]; event.get(k, d) is Get.                                       *)
(***************************************************************************)
EXTENDS Integers, Sequences, FiniteSets, TLC

VARIABLES
    pc,              \* position of the invocation
    event,           \* the event handed to handler
    secretStore,     \* shared_secret held under SECRET_ARN, None when there is none
    operation,       \* the function handler dispatched to
    bucket_name,     \* os.environ.get('BUCKET_NAME'), once read
    secret_arn,      \* os.environ.get('SECRET_ARN'), once read
    auth_header,     \* authenticate_request's local
    provided_token,  \* authenticate_request's local
    expected_secret, \* authenticate_request's local
    authenticated,   \* first component of authenticate_request's result
    request_data,    \* json.loads of the body
    calls,           \* external calls made by this invocation, in order
    response         \* what handler returns

vars == <<pc, event, secretStore, operation, bucket_name, secret_arn, auth_header,
          provided_token, expected_secret, authenticated, request_data, calls, response>>

\* Longest bearer token and stored secret the model enumerates.
MaxTokenLen == 2

-----------------------------------------------------------------------------
(* Python values *)

None == <<"None">>

\* faulty variant: only the empty string counts as missing
Falsy_EmptyOnly(v) == v = <<>>

\* `not v` for v a string or None
Falsy(v) == v = None \/ v = <<>>

\* `a or b`
Or(a, b) == IF Falsy(a) THEN b ELSE a

\* d.get(k) on a dict of string values
DictGet(d, k) == IF \E i \in d : i[1] = k THEN (CHOOSE i \in d : i[1] = k)[2] ELSE None

\* event.get(k, default)
Get(e, k, default) == IF e[k].has THEN e[k].v ELSE default

\* s.startswith(p)
StartsWith(s, p) == Len(s) >= Len(p) /\ SubSeq(s, 1, Len(p)) = p

Bearer == <<"B", "e", "a", "r", "e", "r", " ">>

\* auth_header[7:]
TokenOf(header) == SubSeq(header, 8, Len(header))

-----------------------------------------------------------------------------
(* Inputs *)

Tokens == {[i \in 1..n |-> "s"] : n \in 0..MaxTokenLen}

Secrets == Tokens \ {<<>>}

HeaderNames == {"Authorization", "authorization", "AUTHORIZATION", "AuthoriZation"}

HeaderValues ==
    {<<>>, <<"B", "e", "a", "r", "e", "r">>, <<"B", "a", "s", "i", "c", " ", "s">>}
        \cup {Bearer \o t : t \in Tokens}

\* header mappings: null, empty, or one Authorization header in some capitalisation
NullHeaders == [null |-> TRUE, items |-> {}]

HeaderMaps ==
    {NullHeaders, [null |-> FALSE, items |-> {}]}
        \cup {[null |-> FALSE, items |-> {<<n, v>>}] : n \in HeaderNames, v \in HeaderValues}

FieldValues == {<<>>, <<"f">>}

JsonObjects ==
    {{}} \cup {{<<n, v>>} : n \in {"file_name", "file_key"}, v \in FieldValues}

\* a text, by what json.loads makes of it
JsonTexts ==
    {[kind |-> k, obj |-> {}] : k \in {"empty", "malformed", "array"}}
        \cup {[kind |-> "object", obj |-> o] : o \in JsonObjects}

EmptyText == [kind |-> "empty", obj |-> {}]

MalformedText == [kind |-> "malformed", obj |-> {}]

\* the event's body is null
NullBody == [enc |-> "null", text |-> EmptyText]

\* event bodies: null, a text as sent, a text base64-encoded, or bytes that are no base64
Bodies ==
    {NullBody} \cup {[enc |-> "plain", text |-> t] : t \in JsonTexts}
           \cup {[enc |-> "base64", text |-> t] : t \in JsonTexts \ {EmptyText}}
           \cup {[enc |-> "invalid", text |-> MalformedText]}

Opt(S, dummy) == {[has |-> FALSE, v |-> dummy]} \cup {[has |-> TRUE, v |-> x] : x \in S}

Resources == {"/presigned-url", "/confirm-upload", "/unknown-path"}

Methods == {"POST", "GET"}

\* an event that is no mapping (None, a list, a string): every .get on it raises
NotAMapping ==
    [mapping |-> FALSE,
     resource |-> [has |-> FALSE, v |-> ""], httpMethod |-> [has |-> FALSE, v |-> ""],
     headers |-> [has |-> FALSE, v |-> NullHeaders],
     body |-> [has |-> FALSE, v |-> NullBody],
     isBase64Encoded |-> [has |-> FALSE, v |-> FALSE]]

Events ==
    {NotAMapping} \cup
    [mapping : {TRUE},
     resource : Opt(Resources, ""),
     httpMethod : Opt(Methods, ""),
     headers : Opt(HeaderMaps, NullHeaders),
     body : Opt(Bodies, NullBody),
     isBase64Encoded : Opt({TRUE}, FALSE)]

BucketName == <<"b">>

SecretArn == <<"a">>

\* what os.environ.get can return for a variable: unset, set empty, set
BucketValues == {None, <<>>, BucketName}

ArnValues == {None, <<>>, SecretArn}

-----------------------------------------------------------------------------
(* Responses, one per return statement *)

\* no response yet
NoResponse == [statusCode |-> 0, headers |-> {}, body |-> [error |-> ""]]

\* no parsed body yet
NoData == [kind |-> "unset", obj |-> {}]

EndpointNotFound ==
    [statusCode |-> 404,
     headers |-> {<<"Content-Type", "application/json">>, <<"Access-Control-Allow-Origin", "*">>},
     body |-> [error |-> "Endpoint not found",
               available_endpoints |->
                   <<"POST /presigned-url - Generate presigned URL for file upload",
                     "POST /confirm-upload - Confirm file upload completion">>]]

\* faulty variant: the catch-all response without the CORS header
InternalServerError_NoCors ==
    [statusCode |-> 500,
     headers |-> {<<"Content-Type", "application/json">>},
     body |-> [error |-> "Internal server error"]]

InternalServerError ==
    [statusCode |-> 500,
     headers |-> {<<"Content-Type", "application/json">>, <<"Access-Control-Allow-Origin", "*">>},
     body |-> [error |-> "Internal server error"]]

MissingEnvironment ==
    [statusCode |-> 500,
     headers |-> {<<"Content-Type", "application/json">>, <<"Access-Control-Allow-Origin", "*">>},
     body |-> [error |-> "Missing required environment variables"]]

MissingAuthorization ==
    [statusCode |-> 401,
     headers |-> {<<"Content-Type", "application/json">>, <<"Access-Control-Allow-Origin", "*">>},
     body |-> [error |-> "Missing Authorization header"]]

InvalidAuthorizationFormat ==
    [statusCode |-> 401,
     headers |-> {<<"Content-Type", "application/json">>, <<"Access-Control-Allow-Origin", "*">>},
     body |-> [error |-> "Invalid Authorization header format. Expected: Bearer <token>"]]

SecretNotFound ==
    [statusCode |-> 500,
     headers |-> {<<"Content-Type", "application/json">>, <<"Access-Control-Allow-Origin", "*">>},
     body |-> [error |-> "Shared secret not found in Secrets Manager"]]

SecretFetchFailed ==
    [statusCode |-> 500,
     headers |-> {<<"Content-Type", "application/json">>, <<"Access-Control-Allow-Origin", "*">>},
     body |-> [error |-> "Failed to retrieve authentication secret"]]

InvalidToken ==
    [statusCode |-> 401,
     headers |-> {<<"Content-Type", "application/json">>, <<"Access-Control-Allow-Origin", "*">>},
     body |-> [error |-> "Invalid authentication token"]]

InvalidJson ==
    [statusCode |-> 400,
     headers |-> {<<"Content-Type", "application/json">>, <<"Access-Control-Allow-Origin", "*">>},
     body |-> [error |-> "Invalid JSON in request body"]]

MissingFileName ==
    [statusCode |-> 400,
     headers |-> {<<"Content-Type", "application/json">>, <<"Access-Control-Allow-Origin", "*">>},
     body |-> [error |-> "Missing required field: file_name"]]

MissingFileKey ==
    [statusCode |-> 400,
     headers |-> {<<"Content-Type", "application/json">>, <<"Access-Control-Allow-Origin", "*">>},
     body |-> [error |-> "Missing required field: file_key"]]

FailedToGenerate ==
    [statusCode |-> 500,
     headers |-> {<<"Content-Type", "application/json">>, <<"Access-Control-Allow-Origin", "*">>},
     body |-> [error |-> "Failed to generate presigned URL"]]

FileNotFound ==
    [statusCode |-> 404,
     headers |-> {<<"Content-Type", "application/json">>, <<"Access-Control-Allow-Origin", "*">>},
     body |-> [error |-> "File not found in S3"]]

FailedToConfirm ==
    [statusCode |-> 500,
     headers |-> {<<"Content-Type", "application/json">>, <<"Access-Control-Allow-Origin", "*">>},
     body |-> [error |-> "Failed to confirm upload"]]

\* the key of the upload; the timestamp and the random id stand as placeholders
UploadKey(file_name) == <<"uploads/", "<timestamp>", "_", "<id>", "_">> \o file_name

PresignedUrlIssued(bucket, file_name) ==
    [statusCode |-> 200,
     headers |-> {<<"Content-Type", "application/json">>, <<"Access-Control-Allow-Origin", "*">>},
     body |-> [file_key |-> UploadKey(file_name), bucket |-> bucket, expires_in |-> 3600]]

UploadConfirmed(bucket, file_key) ==
    [statusCode |-> 200,
     headers |-> {<<"Content-Type", "application/json">>, <<"Access-Control-Allow-Origin", "*">>},
     body |-> [message |-> "File upload confirmed", file_key |-> file_key, bucket |-> bucket]]

-----------------------------------------------------------------------------
(* handler: entry and dispatch *)

\* faulty variant: the method is not looked at
Route_PathOnly(resource_path, http_method) ==
    IF resource_path = "/presigned-url" THEN "generate_presigned_url"
    ELSE IF resource_path = "/confirm-upload" THEN "confirm_upload"
    ELSE "not_found"

Route(resource_path, http_method) ==
    IF resource_path = "/presigned-url" /\ http_method = "POST" THEN "generate_presigned_url"
    ELSE IF resource_path = "/confirm-upload" /\ http_method = "POST" THEN "confirm_upload"
    ELSE "not_found"

\* faulty variant: `and` in place of `or`
EnvironmentMissing_Both(bucket, arn) == Falsy(bucket) /\ Falsy(arn)

EnvironmentMissing(bucket, arn) == Falsy(bucket) \/ Falsy(arn)

Init ==
    /\ pc = "idle"
    /\ event = NotAMapping
    /\ secretStore = None
    /\ operation = "none"
    /\ bucket_name = None
    /\ secret_arn = None
    /\ auth_header = None
    /\ provided_token = None
    /\ expected_secret = None
    /\ authenticated = FALSE
    /\ request_data = NoData
    /\ calls = <<>>
    /\ response = NoResponse

\* handler is invoked with an event; it reads the path and method and dispatches
handler ==
    /\ pc = "idle"
    /\ \E e \in Events, s \in Secrets \cup {None} :
        /\ event' = e
        /\ secretStore' = s
        /\ IF ~e.mapping
             THEN /\ operation' = "none"
                  /\ response' = InternalServerError
                  /\ pc' = "done"
             ELSE LET to == Route(Get(e, "resource", ""), Get(e, "httpMethod", "")) IN
                  /\ operation' = to
                  /\ response' = IF to = "not_found" THEN EndpointNotFound ELSE NoResponse
                  /\ pc' = IF to = "not_found" THEN "done" ELSE "environment"
    /\ UNCHANGED <<bucket_name, secret_arn, auth_header, provided_token, expected_secret,
                   authenticated, request_data, calls>>

\* generate_presigned_url / confirm_upload: read and check the configuration
check_environment ==
    /\ pc = "environment"
    /\ \E b \in BucketValues, a \in ArnValues :
        /\ bucket_name' = b
        /\ secret_arn' = a
        /\ IF EnvironmentMissing(b, a)
             THEN response' = MissingEnvironment /\ pc' = "done"
             ELSE response' = NoResponse /\ pc' = "authenticate"
    /\ UNCHANGED <<event, secretStore, operation, auth_header, provided_token,
                   expected_secret, authenticated, request_data, calls>>

-----------------------------------------------------------------------------
(* authenticate_request *)

\* headers.get('Authorization') or headers.get('authorization')
LookupAuthorization(items) ==
    Or(DictGet(items, "Authorization"), DictGet(items, "authorization"))

\* what get_secret_value can do when the store holds `held`: raise, return a
\* binary secret (no SecretString), or return a SecretString
SecretResponses(held) ==
    {[raises |-> TRUE, has_string |-> FALSE, text |-> EmptyText]} \cup
    IF held = None
      THEN {[raises |-> FALSE, has_string |-> FALSE, text |-> EmptyText]} \cup
           {[raises |-> FALSE, has_string |-> TRUE, text |-> t] :
               t \in {MalformedText, [kind |-> "array", obj |-> {}],
                      [kind |-> "object", obj |-> {}],
                      [kind |-> "object", obj |-> {<<"shared_secret", <<>>>>}]}}
      ELSE {[raises |-> FALSE, has_string |-> TRUE,
             text |-> [kind |-> "object", obj |-> {<<"shared_secret", held>>}]]}

\* faulty variant: only the call is guarded, not the parsing of what it returns
ExpectedSecret_CallOnly(secret_response) ==
    IF secret_response.raises
      THEN [failed |-> TRUE, secret |-> None]
      ELSE [failed |-> FALSE,
            secret |-> IF secret_response.has_string /\ secret_response.text.kind = "object"
                         THEN DictGet(secret_response.text.obj, "shared_secret")
                         ELSE None]

\* the try block of authenticate_request: any exception in it is caught
ExpectedSecret(secret_response) ==
    IF secret_response.raises \/ ~secret_response.has_string
         \/ secret_response.text.kind # "object"
      THEN [failed |-> TRUE, secret |-> None]
      ELSE [failed |-> FALSE, secret |-> DictGet(secret_response.text.obj, "shared_secret")]

\* faulty variant: a token that is a prefix of the secret is accepted
TokenMismatch_Prefix(provided, expected) == ~StartsWith(expected, provided)

\* faulty variant: the comparison is skipped
TokenMismatch_Never(provided, expected) == FALSE

\* provided_token != expected_secret
TokenMismatch(provided, expected) == provided # expected

\* an entry of the log of external calls: boto3.client(...) and the API calls
Call(api, outcome) == [api |-> api, outcome |-> outcome]

\* how the get_secret_value call ended
FetchOutcome(secret_response) ==
    IF secret_response.raises THEN "raises"
    ELSE IF ~secret_response.has_string THEN "no_string"
    ELSE secret_response.text.kind

\* faulty variant: the exception leaves handler, which returns no response
Raise_Propagates ==
    /\ response' = NoResponse
    /\ pc' = "done"

\* the handler's except branch
Raise ==
    /\ response' = InternalServerError
    /\ pc' = "done"

authenticate_request ==
    /\ pc = "authenticate"
    /\ LET headers == Get(event, "headers", [null |-> FALSE, items |-> {}]) IN
       IF headers.null
         THEN /\ Raise
              /\ UNCHANGED <<auth_header, provided_token, expected_secret, authenticated, calls>>
         ELSE
       LET header == LookupAuthorization(headers.items) IN
       /\ auth_header' = header
       /\ IF Falsy(header)
            THEN /\ response' = MissingAuthorization
                 /\ pc' = "done"
                 /\ UNCHANGED <<provided_token, expected_secret, authenticated, calls>>
          ELSE IF ~StartsWith(header, Bearer)
            THEN /\ response' = InvalidAuthorizationFormat
                 /\ pc' = "done"
                 /\ UNCHANGED <<provided_token, expected_secret, authenticated, calls>>
          ELSE
            /\ provided_token' = TokenOf(header)
            /\ \E client_ok \in BOOLEAN, secret_response \in SecretResponses(secretStore) :
                IF ~client_ok
                  THEN /\ Raise
                       /\ calls' = Append(calls, Call("client_secretsmanager", "raises"))
                       /\ UNCHANGED <<expected_secret, authenticated>>
                  ELSE
                LET fetched == ExpectedSecret(secret_response) IN
                /\ calls' = calls \o <<Call("client_secretsmanager", "returns"),
                                        Call("get_secret_value", FetchOutcome(secret_response))>>
                /\ expected_secret' = fetched.secret
                /\ IF fetched.failed
                     THEN /\ response' = SecretFetchFailed
                          /\ pc' = "done"
                          /\ UNCHANGED authenticated
                   ELSE IF Falsy(fetched.secret)
                     THEN /\ response' = SecretNotFound
                          /\ pc' = "done"
                          /\ UNCHANGED authenticated
                   ELSE IF TokenMismatch(TokenOf(header), fetched.secret)
                     THEN /\ response' = InvalidToken
                          /\ pc' = "done"
                          /\ UNCHANGED authenticated
                   ELSE /\ authenticated' = TRUE
                        /\ pc' = "parse_body"
                        /\ UNCHANGED response
    /\ UNCHANGED <<event, secretStore, operation, bucket_name, secret_arn, request_data>>

-----------------------------------------------------------------------------
(* generate_presigned_url and confirm_upload: the request body *)

\* base64.b64decode(body).decode('utf-8') when isBase64Encoded is set, else the
\* body as sent.  Decoding null or non-base64 bytes raises; a body sent as
\* plain JSON either fails to decode or decodes to bytes that are no JSON.
DecodedBodies(body, is_base64) ==
    IF is_base64
      THEN CASE body.enc = "null"    -> {[raised |-> TRUE, text |-> EmptyText]}
             [] body.enc = "invalid" -> {[raised |-> TRUE, text |-> EmptyText]}
             [] body.enc = "base64"  -> {[raised |-> FALSE, text |-> body.text]}
             [] body.enc = "plain"   ->
                    IF body.text = EmptyText
                      THEN {[raised |-> FALSE, text |-> EmptyText]}
                      ELSE {[raised |-> TRUE, text |-> EmptyText],
                            [raised |-> FALSE, text |-> MalformedText]}
      ELSE CASE body.enc = "null"    -> {[raised |-> FALSE, text |-> EmptyText]}
             [] body.enc = "plain"   -> {[raised |-> FALSE, text |-> body.text]}
             [] body.enc = "base64"  -> {[raised |-> FALSE, text |-> MalformedText]}
             [] body.enc = "invalid" -> {[raised |-> FALSE, text |-> MalformedText]}

\* json.loads(body) if body else {}
LoadJson(text) ==
    CASE text.kind = "empty"     -> [decode_error |-> FALSE, data |-> [kind |-> "object", obj |-> {}]]
      [] text.kind = "malformed" -> [decode_error |-> TRUE, data |-> NoData]
      [] text.kind = "array"     -> [decode_error |-> FALSE, data |-> [kind |-> "array", obj |-> {}]]
      [] text.kind = "object"    -> [decode_error |-> FALSE, data |-> [kind |-> "object", obj |-> text.obj]]

parse_body ==
    /\ pc = "parse_body"
    /\ \E decoded \in DecodedBodies(Get(event, "body", [enc |-> "plain", text |-> EmptyText]),
                                    Get(event, "isBase64Encoded", FALSE)) :
        IF decoded.raised
          THEN Raise /\ UNCHANGED request_data
          ELSE LET loaded == LoadJson(decoded.text) IN
               IF loaded.decode_error
                 THEN /\ response' = InvalidJson
                      /\ pc' = "done"
                      /\ UNCHANGED request_data
                 ELSE /\ request_data' = loaded.data
                      /\ pc' = operation
                      /\ UNCHANGED response
    /\ UNCHANGED <<event, secretStore, operation, bucket_name, secret_arn, auth_header,
                   provided_token, expected_secret, authenticated, calls>>

-----------------------------------------------------------------------------
(* generate_presigned_url: the upload credentials *)

generate_presigned_url ==
    /\ pc = "generate_presigned_url"
    /\ IF request_data.kind # "object"
         THEN Raise /\ UNCHANGED calls
       ELSE LET file_name == DictGet(request_data.obj, "file_name") IN
       IF Falsy(file_name)
         THEN /\ response' = MissingFileName
              /\ pc' = "done"
              /\ UNCHANGED calls
       ELSE \E client_ok \in BOOLEAN, post_ok \in BOOLEAN, put_ok \in BOOLEAN :
         IF ~client_ok
           THEN Raise /\ calls' = Append(calls, Call("client_s3", "raises"))
         ELSE IF ~post_ok
           THEN /\ calls' = calls \o <<Call("client_s3", "returns"),
                                       Call("generate_presigned_post", "raises")>>
                /\ response' = FailedToGenerate
                /\ pc' = "done"
         ELSE IF ~put_ok
           THEN /\ calls' = calls \o <<Call("client_s3", "returns"),
                                       Call("generate_presigned_post", "returns"),
                                       Call("generate_presigned_url", "raises")>>
                /\ response' = FailedToGenerate
                /\ pc' = "done"
         ELSE /\ calls' = calls \o <<Call("client_s3", "returns"),
                                     Call("generate_presigned_post", "returns"),
                                     Call("generate_presigned_url", "returns")>>
              /\ response' = PresignedUrlIssued(bucket_name, file_name)
              /\ pc' = "done"
    /\ UNCHANGED <<event, secretStore, operation, bucket_name, secret_arn, auth_header,
                   provided_token, expected_secret, authenticated, request_data>>

-----------------------------------------------------------------------------
(* confirm_upload: the metadata probe *)

\* how head_object ends: the object's metadata, the NoSuchKey exception, a
\* ClientError carrying the 404 of the HEAD request, or any other failure
HeadObjectOutcomes == {"found", "NoSuchKey", "ClientError404", "error"}

\* the outcomes that report that no object exists at the key
AbsenceReports == {"NoSuchKey", "ClientError404"}

\* the try block around head_object and its except clauses
ProbeResponse(outcome, bucket, file_key) ==
    CASE outcome = "found"     -> UploadConfirmed(bucket, file_key)
      [] outcome = "NoSuchKey" -> FileNotFound
      [] OTHER                 -> FailedToConfirm

confirm_upload ==
    /\ pc = "confirm_upload"
    /\ IF request_data.kind # "object"
         THEN Raise /\ UNCHANGED calls
       ELSE LET file_key == DictGet(request_data.obj, "file_key") IN
       IF Falsy(file_key)
         THEN /\ response' = MissingFileKey
              /\ pc' = "done"
              /\ UNCHANGED calls
       ELSE \E client_ok \in BOOLEAN, outcome \in HeadObjectOutcomes :
         IF ~client_ok
           THEN Raise /\ calls' = Append(calls, Call("client_s3", "raises"))
           ELSE /\ calls' = calls \o <<Call("client_s3", "returns"), Call("head_object", outcome)>>
                /\ response' = ProbeResponse(outcome, bucket_name, file_key)
                /\ pc' = "done"
    /\ UNCHANGED <<event, secretStore, operation, bucket_name, secret_arn, auth_header,
                   provided_token, expected_secret, authenticated, request_data>>

\* the invocation ends; the next one starts from nothing
handler_return ==
    /\ pc = "done"
    /\ pc' = "idle"
    /\ event' = NotAMapping
    /\ secretStore' = None
    /\ operation' = "none"
    /\ bucket_name' = None
    /\ secret_arn' = None
    /\ auth_header' = None
    /\ provided_token' = None
    /\ expected_secret' = None
    /\ authenticated' = FALSE
    /\ request_data' = NoData
    /\ calls' = <<>>
    /\ response' = NoResponse

Next ==
    \/ handler
    \/ check_environment
    \/ authenticate_request
    \/ parse_body
    \/ generate_presigned_url
    \/ confirm_upload
    \/ handler_return

Spec == Init /\ [][Next]_vars

-----------------------------------------------------------------------------
(* Vocabulary of the properties, stated on the event and the world, not on  *)
(* the operators that model the code                                        *)

Done == pc = "done"

Dispatched == operation \in {"generate_presigned_url", "confirm_upload"}

\* both configuration values are set to something
Configured == bucket_name \notin {None, <<>>} /\ secret_arn \notin {None, <<>>}

ConfigurationMissing == bucket_name \in {None, <<>>} \/ secret_arn \in {None, <<>>}

\* the items of the event's header mapping; none when it is absent or null
HeaderItems ==
    IF event.headers.has /\ ~event.headers.v.null THEN event.headers.v.items ELSE {}

\* the Authorization header is missing: no header mapping, or an empty one
HeaderMissing == event.mapping /\ ~(event.headers.has /\ event.headers.v.null) /\ HeaderItems = {}

\* some header, in any capitalisation of the name, carries 'Bearer <token>'
Carries(token) == \E i \in HeaderItems : i[2] = Bearer \o token

\* a header the code reads by name carries 'Bearer <token>'
CarriesByName(token) ==
    \E i \in HeaderItems : i[1] \in {"Authorization", "authorization"} /\ i[2] = Bearer \o token

StatusIs(code) == response.statusCode = code

ErrorIs(message) == "error" \in DOMAIN response.body /\ response.body.error = message

CallsTo(apis) == {i \in 1..Len(calls) : calls[i].api \in apis}

\* a client could not be built, or the secret store or the storage service raised
DependencyFailed == \E i \in 1..Len(calls) : calls[i].outcome = "raises"

StorageApis == {"generate_presigned_post", "generate_presigned_url", "head_object"}

IsBase64 == event.isBase64Encoded.has /\ event.isBase64Encoded.v

\* the body the event carries is JSON text of the given kind, readable as sent
BodyKind(kind) ==
    /\ event.body.has
    /\ event.body.v.text.kind = kind
    /\ \/ event.body.v.enc = "plain" /\ ~IsBase64
       \/ event.body.v.enc = "base64" /\ IsBase64

\* the body is a JSON object holding a non-empty value for the operation's field
RequiredFieldSent ==
    /\ BodyKind("object")
    /\ \E i \in event.body.v.text.obj :
          /\ i[1] = (IF operation = "generate_presigned_url" THEN "file_name" ELSE "file_key")
          /\ i[2] # <<>>

-----------------------------------------------------------------------------
(* Properties *)

\* C1: on the two endpoints, with the configuration present and no dependency
\* failing, a request whose bearer token differs from the secret held in the
\* secret store is answered 401, whatever the token (the empty one included)
\* and whatever the body; when the header is one the code reads, the error is
\* "Invalid authentication token".
C1_WrongTokenIs401 ==
    \A t \in Tokens :
        (Done /\ Dispatched /\ Configured /\ secretStore \in Secrets /\ t # secretStore
              /\ Carries(t) /\ ~DependencyFailed)
            => /\ StatusIs(401)
               /\ CarriesByName(t) => ErrorIs("Invalid authentication token")

C1_Witness ==
    /\ Done /\ Dispatched /\ Configured /\ secretStore \in Secrets
    /\ CarriesByName(<<>>)
    /\ BodyKind("malformed")
    /\ StatusIs(401) /\ ErrorIs("Invalid authentication token")

\* C2: a request to one of the two endpoints, with the configuration present,
\* that has no Authorization header (no header mapping in the event, or an
\* empty one) is answered 401 with the error "Missing Authorization header".
C2_MissingHeaderIs401 ==
    (Done /\ Dispatched /\ Configured /\ HeaderMissing)
        => StatusIs(401) /\ ErrorIs("Missing Authorization header")

C2_Witness ==
    /\ Done /\ Dispatched /\ Configured /\ ~event.headers.has
    /\ StatusIs(401) /\ ErrorIs("Missing Authorization header")

\* C3: whatever the capitalisation of the header's name, a request carrying
\* 'Bearer <secret>' is authenticated, and is not answered "Missing
\* Authorization header".
C3_AnyCapitalisationAuthenticates ==
    (Done /\ Dispatched /\ Configured /\ secretStore \in Secrets /\ Carries(secretStore)
          /\ ~DependencyFailed)
        => authenticated /\ ~ErrorIs("Missing Authorization header")

\* C4: when head_object reports that no object exists at the key, in whatever
\* way, confirm-upload answers 404 "File not found in S3"; the 500 "Failed to
\* confirm upload" is answered only to a storage failure that is no absence.
C4_AbsenceIs404 ==
    Done =>
        /\ (\E i \in CallsTo({"head_object"}) : calls[i].outcome \in AbsenceReports)
              => StatusIs(404) /\ ErrorIs("File not found in S3")
        /\ ErrorIs("Failed to confirm upload")
              => \E i \in CallsTo({"head_object"}) : calls[i].outcome \notin AbsenceReports

\* C5: when the bucket name or the secret identifier is missing, both
\* endpoints answer 500 "Missing required environment variables" before
\* authentication runs: no header is read, nothing is called, whatever the
\* Authorization header.
C5_MissingConfigurationIs500 ==
    (Done /\ Dispatched /\ ConfigurationMissing)
        => /\ StatusIs(500) /\ ErrorIs("Missing required environment variables")
           /\ calls = <<>>
           /\ auth_header = None /\ provided_token = None /\ ~authenticated

C5_Witness ==
    /\ Done /\ Dispatched /\ bucket_name = BucketName /\ secret_arn = None
    /\ Carries(<<"s", "s">>) /\ secretStore = <<"s">>
    /\ StatusIs(500) /\ calls = <<>>

\* C6: handler dispatches to generate_presigned_url exactly on (/presigned-url,
\* POST) and to confirm_upload exactly on (/confirm-upload, POST); every other
\* pair, a missing path or method included, is answered 404 with the list of
\* the two endpoints, without authentication and without any external call.
C6_OnlyTheTwoPairsDispatch ==
    LET path == IF event.resource.has THEN event.resource.v ELSE "<absent>"
        method == IF event.httpMethod.has THEN event.httpMethod.v ELSE "<absent>"
    IN  (pc # "idle" /\ event.mapping) =>
          /\ operation = "generate_presigned_url" <=> (path = "/presigned-url" /\ method = "POST")
          /\ operation = "confirm_upload" <=> (path = "/confirm-upload" /\ method = "POST")
          /\ ~Dispatched =>
                /\ Done /\ StatusIs(404) /\ ErrorIs("Endpoint not found")
                /\ response.body.available_endpoints =
                       <<"POST /presigned-url - Generate presigned URL for file upload",
                         "POST /confirm-upload - Confirm file upload completion">>
                /\ calls = <<>> /\ auth_header = None /\ ~authenticated

C6_Witness ==
    /\ Done /\ event.mapping
    /\ event.resource.has /\ event.resource.v = "/presigned-url"
    /\ event.httpMethod.has /\ event.httpMethod.v = "GET"
    /\ Carries(secretStore)
    /\ StatusIs(404)

\* C7: every response handler returns carries Content-Type: application/json
\* and Access-Control-Allow-Origin: *.
C7_StandardHeaders ==
    Done => /\ <<"Content-Type", "application/json">> \in response.headers
            /\ <<"Access-Control-Allow-Origin", "*">> \in response.headers

C7_Witness ==
    /\ Done /\ StatusIs(500) /\ ErrorIs("Internal server error")
    /\ <<"Access-Control-Allow-Origin", "*">> \in response.headers

\* C8: handler always returns a response with status 200, 400, 401, 404 or
\* 500; an event that is no mapping, a null header mapping, a body that fails
\* base64 decoding and a JSON body that is no object are answered 500
\* "Internal server error".
C8_CatchAll ==
    Done =>
        /\ response.statusCode \in {200, 400, 401, 404, 500}
        /\ (\/ ~event.mapping
            \/ Dispatched /\ Configured /\ event.headers.has /\ event.headers.v.null
            \/ authenticated /\ IsBase64 /\ event.body.has
                   /\ event.body.v.enc \in {"null", "invalid"}
            \/ authenticated /\ BodyKind("array"))
              => StatusIs(500) /\ ErrorIs("Internal server error")

C8_Witness ==
    /\ Done /\ authenticated /\ BodyKind("array")
    /\ StatusIs(500) /\ ErrorIs("Internal server error")

\* C9: when get_secret_value raises, or what it returns cannot be parsed, the
\* response is 500 with exactly the body {"error": "Failed to retrieve
\* authentication secret"}; the fetch is made once and nothing follows it.
C9_SecretFetchFailureIs500 ==
    (Done /\ \E i \in CallsTo({"get_secret_value"}) :
                 calls[i].outcome \in {"raises", "no_string", "malformed", "array"})
        => /\ StatusIs(500)
           /\ response.body = [error |-> "Failed to retrieve authentication secret"]
           /\ Cardinality(CallsTo({"get_secret_value"})) = 1
           /\ CallsTo(StorageApis) = {}
           /\ ~authenticated

C9_Witness ==
    /\ Done /\ Dispatched /\ CarriesByName(<<"s">>)
    /\ calls = <<Call("client_secretsmanager", "returns"), Call("get_secret_value", "malformed")>>
    /\ StatusIs(500) /\ ErrorIs("Failed to retrieve authentication secret")

\* C10: the storage service is called only after the secret was fetched and
\* the request's token equalled it, and only when the required body field was
\* sent; no 200 goes to a request whose token differs from the stored secret,
\* and no 400 goes to a request that is not authenticated.
C10_StorageOnlyAfterAuthentication ==
    /\ \A i \in CallsTo(StorageApis) :
          /\ authenticated
          /\ secretStore \in Secrets /\ CarriesByName(secretStore)
          /\ \E j \in 1..(i - 1) : calls[j] = Call("get_secret_value", "object")
          /\ RequiredFieldSent
    /\ (Done /\ StatusIs(200)) => secretStore \in Secrets /\ CarriesByName(secretStore)
    /\ (Done /\ StatusIs(400)) => secretStore \in Secrets /\ CarriesByName(secretStore)

C10_Witness ==
    /\ Done /\ StatusIs(200) /\ operation = "confirm_upload"
    /\ calls = <<Call("client_secretsmanager", "returns"), Call("get_secret_value", "object"),
                 Call("client_s3", "returns"), Call("head_object", "found")>>

====
